---- MODULE Spec2Model ----
(***************************************************************************)
(* Model of the IndiaMART scraper (crawler.py) and of its cleaning pass    *)
(* (etl.py).                                                               *)
(*                                                                         *)
(* Text is modelled as a tuple of one-character strings, so that joining,  *)
(* lower-casing, trimming and substring tests are computed and not         *)
(* assumed.  URLs, hrefs, class names and CSV fields are such texts.       *)
(***************************************************************************)
EXTENDS Integers, Sequences, FiniteSets, TLC

VARIABLES
    \* ---- crawler.py: main / scrape_page / append_to_master ----
    run,        \* which invocation of main this is (1 = first)
    pc,         \* position inside main
    pages,      \* the `pages` argument of main
    p,          \* loop variable of main's for loop
    seen_urls,  \* the dedup ledger (a set of URLs)
    new_rows,   \* what the last scrape_page call returned
    master,     \* data/products.csv: [exists, header, rows]
    archive,    \* data/page_{keyword}_{p}.html, per page
    served,     \* what the remote site answered for each page (run 1)
    last,       \* trace of the last scrape_page call (branch, candidates)
    seeded,     \* the ledger as load_existing_urls returned it for this run
    loadOk,     \* per run: did load_existing_urls read the master table
    accepted,   \* every row scrape_page returned in this run, in order
    \* ---- crawler.py: get_ancestor_with_fields ----
    tree,       \* the anchor's ancestor chain and the marker elements in it
    block,      \* the node get_ancestor_with_fields returned
    \* ---- etl.py ----
    stage,      \* position in the cleaning job
    field,      \* the row as text in a CSV file: [location, price_text]
    cell,       \* the row in the data frame: [location, price_text, price_value]
    given,      \* the row as the last transform call received it
    first,      \* the row as the first transform call left it
    passes      \* how many times transform has been applied

crawlVars == <<run, pc, pages, p, seen_urls, new_rows, master, archive,
               served, last, seeded, loadOk, accepted>>
locVars   == <<tree, block>>
cleanVars == <<stage, field, cell, given, first, passes>>
vars      == <<crawlVars, locVars, cleanVars>>

\* Python's None and pandas' NaN, as values no text is equal to
None == <<"<None>">>
NaN  == <<"<NaN>">>

\* ---------------------------------------------------------------------
\* Bounds of the model
\* ---------------------------------------------------------------------
MaxPages == 2       \* largest `pages` argument explored
MaxRuns  == 2       \* how many times main is run in a row
MaxDepth == 8       \* longest chain of ancestors above an anchor
MaxLen   == 3       \* longest location or price text drawn from the alphabets

\* ---------------------------------------------------------------------
\* Text helpers (Python str operations)
\* ---------------------------------------------------------------------
UpperCase ==
    <<"A", "B", "C", "D", "E", "F", "G", "H", "I", "J", "K", "L", "M", "N", "O", "P", "Q", "R", "S", "T", "U", "V", "W", "X", "Y", "Z">>
LowerCase ==
    <<"a", "b", "c", "d", "e", "f", "g", "h", "i", "j", "k", "l", "m", "n", "o", "p", "q", "r", "s", "t", "u", "v", "w", "x", "y", "z">>

IndexIn(c, t) == CHOOSE i \in 1..Len(t) : t[i] = c

IsUpper(c) == \E i \in 1..Len(UpperCase) : UpperCase[i] = c
IsLower(c) == \E i \in 1..Len(LowerCase) : LowerCase[i] = c
IsLetter(c) == IsUpper(c) \/ IsLower(c)

\* str.lower / str.upper on one character
LowerChar(c) == IF IsUpper(c) THEN LowerCase[IndexIn(c, UpperCase)] ELSE c
UpperChar(c) == IF IsLower(c) THEN UpperCase[IndexIn(c, LowerCase)] ELSE c

\* str.lower()
Lower(s) == [i \in 1..Len(s) |-> LowerChar(s[i])]

\* `sub in s`
Contains(s, sub) ==
    \E i \in 1..(Len(s) - Len(sub) + 1) : SubSeq(s, i, i + Len(sub) - 1) = sub

\* sep.join(parts), parts a sequence of strings
RECURSIVE Join(_, _)
Join(parts, sep) ==
    IF parts = <<>> THEN <<>>
    ELSE IF Len(parts) = 1 THEN parts[1]
    ELSE parts[1] \o sep \o Join(Tail(parts), sep)

\* iterating a str yields its characters as one-character strings
Chars(s) == [i \in 1..Len(s) |-> <<s[i]>>]

\* str.strip(): drop leading and trailing whitespace
RECURSIVE LStrip(_)
LStrip(s) == IF s # <<>> /\ s[1] = " " THEN LStrip(Tail(s)) ELSE s
RECURSIVE RStrip(_)
RStrip(s) ==
    IF s # <<>> /\ s[Len(s)] = " " THEN RStrip(SubSeq(s, 1, Len(s) - 1)) ELSE s
Strip(s) == RStrip(LStrip(s))

\* ---------------------------------------------------------------------
\* crawler.py
\* ---------------------------------------------------------------------

\* Responses the remote site can give.  Final URLs (resp.url) of two hosts:
B1 == <<"h", "t", "t", "p", ":", "/", "/", "d", ".", "i", "m", "/", "s">>
B2 == <<"h", "t", "t", "p", ":", "/", "/", "w", ".", "i", "m", "/", "s">>
Bases == {B1, B2}

\* href attribute values found in the pages
hrefRel   == <<"/", "p", "r", "o", "d", "d", "e", "t", "a", "i", "l", "/", "a">>
hrefAbs   == <<"h", "t", "t", "p", ":", "/", "/", "d", ".", "i", "m", "/", "p", "r", "o", "d", "d", "e", "t", "a", "i", "l", "/", "a">>
hrefPad   == <<" ", "/", "P", "R", "O", "D", "D", "E", "T", "A", "I", "L", "/", "b", " ">>
hrefBlank == <<" ", " ">>
hrefAbout == <<"/", "a", "b", "o", "u", "t">>
hrefDash  == <<"/", "p", "r", "o", "d", "u", "c", "t", "-", "d", "e", "t", "a", "i", "l", "/", "c">>
hrefComma == <<"/", "i", "t", "e", "m", ",", "1">>

\* class names found in the pages
clsCard      == <<"c", "a", "r", "d", "l", "i", "n", "k", "s">>
clsCardMixed == <<"C", "a", "r", "d", "L", "i", "n", "k", "s">>
clsElps      == <<"e", "l", "p", "s">>
clsNav       == <<"n", "a", "v">>

\* An <a> element: its href attribute (None when it has none) and its class
\* attribute (hasClass false when it has none, else the list of class names).
A(h, c) == [href |-> h, hasClass |-> TRUE, class |-> c]
NoClass(h) == [href |-> h, hasClass |-> FALSE, class |-> <<>>]
aRel     == NoClass(hrefRel)
aAbs     == NoClass(hrefAbs)
aPad     == A(hrefPad, <<clsCard>>)
aBlank   == A(hrefBlank, <<clsCard, clsElps>>)
aEmpty   == A(<<>>, <<clsCardMixed>>)
aAbout   == A(hrefAbout, <<clsNav>>)
aDash    == NoClass(hrefDash)
aComma   == A(hrefComma, <<clsElps, clsCard>>)
aNoHref  == A(None, <<clsCard, clsElps>>)
aNoHref2 == A(None, <<clsCardMixed>>)
aBare    == NoClass(None)

\* The documents the site serves: the <a> elements of a page, document order.
Document(d) ==
    CASE d = "empty"    -> <<>>
      [] d = "twice"    -> <<aRel, aAbs>>
      [] d = "mixed"    -> <<aAbout, aPad, aBlank, aNoHref, aDash>>
      [] d = "nohref"   -> <<aNoHref2, aBare, aAbout, aNoHref>>
      [] d = "comma"    -> <<aAbs, aComma, aEmpty>>
DocNames == {"twice", "mixed", "nohref", "comma"}

\* requests.get: it raises, or it returns a response (status_code, url, text)
Outcomes ==
    {[kind |-> "raise", status |-> 0, url |-> B1, doc |-> "empty"]}
    \cup [kind : {"response"}, status : {200}, url : {B1}, doc : DocNames]
    \cup [kind : {"response"}, status : {200}, url : {B2}, doc : {"twice"}]
    \cup [kind : {"response"}, status : {204, 404}, url : {B1}, doc : {"twice"}]

\* urljoin(base, href) for the href forms above: an href with a scheme stands,
\* a path is put after the base's scheme and host, an empty href gives the base
HasScheme(h) == Len(h) >= 5 /\ SubSeq(h, 1, 5) = <<"h", "t", "t", "p", ":">>
Origin(base) ==
    LET k == CHOOSE i \in 8..Len(base) :
                 base[i] = "/" /\ \A j \in 8..(i - 1) : base[j] # "/"
    IN SubSeq(base, 1, k - 1)
LastSlash(base) == CHOOSE i \in 1..Len(base) :
                       base[i] = "/" /\ \A j \in (i + 1)..Len(base) : base[j] # "/"
absolute_url(base, href) ==
    IF href = <<>> THEN base
    ELSE IF HasScheme(href) THEN href
    ELSE IF href[1] = "/" THEN Origin(base) \o href
    ELSE SubSeq(base, 1, LastSlash(base)) \o href

\* a.get("href", "")
GetHref(a) == IF a.href = None THEN <<>> ELSE a.href

\* " ".join(a.get("class", [])).lower() if a.get("class") else ""
ClassText(a) ==
    IF ~a.hasClass \/ a.class = <<>> THEN <<>>
    ELSE Lower(Join(a.class, <<" ">>))

\* the test of find_product_anchor_candidates on one anchor
IsCandidate(a) ==
    LET href == a.href
        cls  == ClassText(a)
    IN \/ Contains(Lower(href), <<"p", "r", "o", "d", "d", "e", "t", "a", "i", "l">>)
       \/ Contains(cls, <<"p", "r", "o", "d", "d", "e", "t", "a", "i", "l">>)
       \/ Contains(cls, <<"c", "a", "r", "d", "l", "i", "n", "k", "s">>)
       \/ Contains(Lower(href), <<"/", "p", "r", "o", "d", "d", "e", "t", "a", "i", "l", "/">>)
       \/ Contains(Lower(href), <<"/", "p", "r", "o", "d", "u", "c", "t", "-", "d", "e", "t", "a", "i", "l", "/">>)
       \/ Contains(Lower(href), <<"/", "p", "r", "o", "d", "d", "e", "t", "a", "i", "l">>)

\* soup.find_all("a", href=True) filtered by the test, document order
RECURSIVE find_product_anchor_candidates(_)
find_product_anchor_candidates(soup) ==
    IF soup = <<>> THEN <<>>
    ELSE LET a    == Head(soup)
             rest == find_product_anchor_candidates(Tail(soup))
         IN IF a.href # None /\ IsCandidate(a) THEN <<a>> \o rest ELSE rest

\* lambda v: v and "cardlinks" in " ".join(v).lower()
\* v is a str here, and joining a str joins its characters
FallbackClassTest(v) ==
    v # None /\ v # <<>> /\ Contains(Lower(Join(Chars(v), <<" ">>)), <<"c", "a", "r", "d", "l", "i", "n", "k", "s">>)

\* find_all(class_=f): BeautifulSoup calls f on each class name of the
\* element, then on the whole attribute value as one string; on None when the
\* element has no class attribute
ClassFilterMatches(a) ==
    IF ~a.hasClass THEN FallbackClassTest(None)
    ELSE \/ \E i \in 1..Len(a.class) : FallbackClassTest(a.class[i])
         \/ FallbackClassTest(Join(a.class, <<" ">>))

\* [a for a in soup.find_all("a", class_=lambda v: ...)]
RECURSIVE fallback_anchors(_)
fallback_anchors(soup) ==
    IF soup = <<>> THEN <<>>
    ELSE LET a    == Head(soup)
             rest == fallback_anchors(Tail(soup))
         IN IF ClassFilterMatches(a) THEN <<a>> \o rest ELSE rest

\* the search keyword main was given
keyword == <<"k", "w">>

\* the URL part of extract_from_block (the other fields read the block's
\* text and play no part in what is accepted)
extract_from_block(a, base_url, stamp) ==
    LET href == Strip(GetHref(a))
    IN [scrape_time |-> stamp,
        keyword     |-> None,  \* "will set later"
        product_url |-> IF href # <<>> THEN absolute_url(base_url, href) ELSE None]

\* faulty variant of ScrapeLoop: an accepted URL is not added to the ledger
RECURSIVE ScrapeLoop_LedgerNotUpdated(_, _, _, _, _, _)
ScrapeLoop_LedgerNotUpdated(anchors, i, respUrl, stampOf, seen, rows) ==
    IF i > Len(anchors) THEN [rows |-> rows, seen |-> seen]
    ELSE
      LET a    == anchors[i]
          href == Strip(GetHref(a))
          skip == ScrapeLoop_LedgerNotUpdated(anchors, i + 1, respUrl, stampOf, seen, rows)
      IN IF href = <<>> THEN skip
         ELSE IF absolute_url(respUrl, href) \in seen THEN skip
         ELSE LET rec == [extract_from_block(a, respUrl, <<stampOf[1], stampOf[2], i>>)
                              EXCEPT !.keyword = keyword]
              IN IF rec.product_url = None THEN skip
                 ELSE ScrapeLoop_LedgerNotUpdated(anchors, i + 1, respUrl, stampOf,
                                                  seen, Append(rows, rec))

\* faulty variant of ScrapeLoop: an anchor without a usable href is not skipped and
\* its URL is the page's own
RECURSIVE ScrapeLoop_BlankHrefKept(_, _, _, _, _, _)
ScrapeLoop_BlankHrefKept(anchors, i, respUrl, stampOf, seen, rows) ==
    IF i > Len(anchors) THEN [rows |-> rows, seen |-> seen]
    ELSE
      LET a    == anchors[i]
          href == Strip(GetHref(a))
          url  == absolute_url(respUrl, href)
          skip == ScrapeLoop_BlankHrefKept(anchors, i + 1, respUrl, stampOf, seen, rows)
      IN IF url \in seen THEN skip
         ELSE ScrapeLoop_BlankHrefKept(
                  anchors, i + 1, respUrl, stampOf, seen \cup {url},
                  Append(rows, [scrape_time |-> <<stampOf[1], stampOf[2], i>>,
                                keyword |-> keyword, product_url |-> url]))

\* the for loop of scrape_page over the anchors, from index i on
RECURSIVE ScrapeLoop(_, _, _, _, _, _)
ScrapeLoop(anchors, i, respUrl, stampOf, seen, rows) ==
    IF i > Len(anchors) THEN [rows |-> rows, seen |-> seen]
    ELSE
      LET a    == anchors[i]
          href == Strip(GetHref(a))
          skip == ScrapeLoop(anchors, i + 1, respUrl, stampOf, seen, rows)
      IN IF href = <<>> THEN skip
         ELSE IF absolute_url(respUrl, href) \in seen THEN skip
         ELSE LET rec == [extract_from_block(a, respUrl, <<stampOf[1], stampOf[2], i>>)
                              EXCEPT !.keyword = keyword]
              IN IF rec.product_url = None THEN skip
                 ELSE ScrapeLoop(anchors, i + 1, respUrl, stampOf,
                                 seen \cup {rec.product_url}, Append(rows, rec))

\* faulty variant of IsFailureStatus: every 2xx status counts as a success
IsFailureStatus_Non2xx(status) == status \notin 200..299

\* `resp.status_code != 200`
IsFailureStatus(status) == status # 200

\* scrape_page(keyword, page_num, seen_urls) on a given answer of the site.
\* Returns the rows, the ledger as the call leaves it, what was archived
\* ("nothing": save_page_html was not called) and a trace of the path taken.
scrape_page(out, stampOf, seen) ==
    IF out.kind = "raise"
    THEN [rows |-> <<>>, seen |-> seen, saved |-> "nothing",
          branch |-> "request_error", tier |-> "none", anchors |-> <<>>]
    ELSE IF IsFailureStatus(out.status)
    THEN [rows |-> <<>>, seen |-> seen, saved |-> out.doc,
          branch |-> "non_200", tier |-> "none", anchors |-> <<>>]
    ELSE
      LET soup    == Document(out.doc)
          primary == find_product_anchor_candidates(soup)
          anchors == IF primary = <<>> THEN fallback_anchors(soup) ELSE primary
          res     == ScrapeLoop(anchors, 1, out.url, stampOf, seen, <<>>)
      IN [rows |-> res.rows, seen |-> res.seen, saved |-> out.doc,
          branch |-> "parsed",
          tier |-> IF primary = <<>> THEN "fallback" ELSE "primary",
          anchors |-> anchors]

\* csv.DictWriter on one value: None is written as the empty field; a field
\* with a comma or a quote is quoted and its quotes are doubled
RECURSIVE DoubleQuotes(_)
DoubleQuotes(v) ==
    IF v = <<>> THEN <<>>
    ELSE IF v[1] = "\"" THEN <<"\"", "\"">> \o DoubleQuotes(Tail(v))
    ELSE <<v[1]>> \o DoubleQuotes(Tail(v))
CsvWrite(v) ==
    IF v = None THEN <<>>
    ELSE IF \E i \in 1..Len(v) : v[i] \in {",", "\""}
    THEN <<"\"">> \o DoubleQuotes(v) \o <<"\"">>
    ELSE v

\* the CSV reader on one field: a quoted field loses its quotes and its
\* doubled quotes become single ones
RECURSIVE UndoubleQuotes(_)
UndoubleQuotes(f) ==
    IF f = <<>> THEN <<>>
    ELSE IF Len(f) >= 2 /\ f[1] = "\"" /\ f[2] = "\""
    THEN <<"\"">> \o UndoubleQuotes(SubSeq(f, 3, Len(f)))
    ELSE <<f[1]>> \o UndoubleQuotes(Tail(f))
CsvParse(f) ==
    IF Len(f) >= 2 /\ f[1] = "\"" /\ f[Len(f)] = "\""
    THEN UndoubleQuotes(SubSeq(f, 2, Len(f) - 1))
    ELSE f

\* list(rows[0].keys())
Keys == <<"scrape_time", "keyword", "product_url">>

\* the text of a column name
ColumnText(c) ==
    CASE c = "scrape_time" -> <<"s", "c", "r", "a", "p", "e", "_", "t", "i", "m", "e">>
      [] c = "keyword"     -> <<"k", "e", "y", "w", "o", "r", "d">>
      [] c = "product_url" -> <<"p", "r", "o", "d", "u", "c", "t", "_", "u", "r", "l">>

\* the text pandas reads in column c of a row of the master table
FieldText(row, c) ==
    CASE c = "scrape_time" -> <<"t">>
      [] c = "keyword"     -> CsvParse(row.keyword)
      [] c = "product_url" -> CsvParse(row.product_url)

\* "url" in c.lower() or "link" in c.lower() or "href" in c.lower()
IsUrlColumn(c) ==
    LET name == Lower(ColumnText(c))
    IN \/ Contains(name, <<"u", "r", "l">>)
       \/ Contains(name, <<"l", "i", "n", "k">>)
       \/ Contains(name, <<"h", "r", "e", "f">>)

\* sample.str.contains("proddetail|indiamart|http", case=False)
LooksLikeUrl(v) ==
    \/ Contains(Lower(v), <<"p", "r", "o", "d", "d", "e", "t", "a", "i", "l">>)
    \/ Contains(Lower(v), <<"i", "n", "d", "i", "a", "m", "a", "r", "t">>)
    \/ Contains(Lower(v), <<"h", "t", "t", "p">>)

\* faulty variant of load_existing_urls: the URL column is taken as the text of the
\* file has it, quotes included
load_existing_urls_RawText(m, readable) ==
    IF ~m.exists \/ ~readable THEN {}
    ELSE {m.rows[k].product_url : k \in 1..Len(m.rows)}

\* load_existing_urls(csv_path); `readable` false: pd.read_csv raised
load_existing_urls(m, readable) ==
    IF ~m.exists THEN {}
    ELSE IF ~readable THEN {}
    ELSE
      LET urlCols == {i \in 1..Len(m.header) : IsUrlColumn(m.header[i])}
      IN IF urlCols # {}
         THEN LET url_col == m.header[CHOOSE i \in urlCols : \A j \in urlCols : i <= j]
              IN {FieldText(m.rows[k], url_col) : k \in 1..Len(m.rows)}
         ELSE {FieldText(m.rows[k], m.header[i]) :
                   k \in 1..Len(m.rows), i \in 1..Len(m.header)}
              \cap {v \in {FieldText(m.rows[k], m.header[i]) :
                               k \in 1..Len(m.rows), i \in 1..Len(m.header)} :
                        LooksLikeUrl(v)}

\* writer.writerows(rows): one CSV line per row
CsvRows(rows) ==
    [k \in 1..Len(rows) |->
        [scrape_time |-> rows[k].scrape_time,
         keyword     |-> CsvWrite(rows[k].keyword),
         product_url |-> CsvWrite(rows[k].product_url)]]

\* append_to_master(rows, master_csv)
append_to_master(rows, m) ==
    IF rows = <<>> THEN m
    ELSE [exists |-> TRUE,
          header |-> IF m.exists THEN m.header ELSE Keys,
          rows   |-> m.rows \o CsvRows(rows)]

\* ---------------------------------------------------------------------
\* main of crawler.py as a state machine
\* ---------------------------------------------------------------------
NoFile == [exists |-> FALSE, header |-> <<>>, rows |-> <<>>]

\* a master table left by an earlier session of the program
EarlierFile ==
    append_to_master(
        <<[scrape_time |-> <<0, 1, 1>>, keyword |-> keyword, product_url |-> hrefAbs]>>,
        NoFile)

NoOutcome == [kind |-> "none", status |-> 0, url |-> B1, doc |-> "empty"]
NoCall    == [branch |-> "none", tier |-> "none", anchors |-> <<>>, out |-> NoOutcome]

LocIdle   == /\ tree = [len |-> 0, marks |-> {}]
             /\ block = -1
CleanIdle == /\ stage = "idle"
             /\ field = <<>>
             /\ cell = <<>>
             /\ given = <<>>
             /\ first = <<>>
             /\ passes = 0

Init ==
    /\ run = 1
    /\ pc = "start"
    /\ pages \in 1..MaxPages
    /\ p = 0
    /\ seen_urls = {}
    /\ new_rows = <<>>
    /\ master \in {NoFile, EarlierFile}
    /\ archive = [q \in 1..MaxPages |-> "nothing"]
    /\ served = [q \in 1..MaxPages |-> NoOutcome]
    /\ last = NoCall
    /\ seeded = {}
    /\ loadOk = <<>>
    /\ accepted = <<>>
    /\ LocIdle
    /\ CleanIdle

\* main, line 240: seen_urls = load_existing_urls(MASTER_CSV)
LoadExisting ==
    /\ pc = "start"
    /\ \E readable \in BOOLEAN :
          /\ (~master.exists => readable)
          /\ seen_urls' = load_existing_urls(master, readable)
          /\ loadOk' = Append(loadOk, readable)
    /\ seeded' = seen_urls'
    /\ p' = 1
    /\ pc' = "scrape"
    /\ UNCHANGED <<run, pages, new_rows, master, archive, served, last, accepted>>

\* the effect of new_rows = scrape_page(keyword, p, seen_urls) on answer `out`
Scraped(out) ==
    LET r == scrape_page(out, <<run, p>>, seen_urls)
    IN /\ new_rows' = r.rows
       /\ seen_urls' = r.seen
       /\ archive' = IF r.saved = "nothing" THEN archive
                     ELSE [archive EXCEPT ![p] = r.saved]
       /\ last' = [branch |-> r.branch, tier |-> r.tier, anchors |-> r.anchors,
                   out |-> out]
       /\ accepted' = accepted \o r.rows
       /\ pc' = "append"
       /\ UNCHANGED <<run, pages, p, master, seeded, loadOk>>

\* main, line 245, first run: the site answers as it likes
ScrapePage ==
    /\ pc = "scrape"
    /\ run = 1
    /\ \E out \in Outcomes :
          /\ Scraped(out)
          /\ served' = [served EXCEPT ![p] = out]

\* main, line 245, later runs: the pages are unchanged
ScrapePageAgain ==
    /\ pc = "scrape"
    /\ run > 1
    /\ Scraped(served[p])
    /\ UNCHANGED served

\* faulty variant of AppendToMaster: the rows are kept back and written in one batch
\* after the last page
AppendToMaster_Batched ==
    /\ pc = "append"
    /\ new_rows # <<>>
    /\ master' = IF p = pages THEN append_to_master(accepted, master) ELSE master
    /\ pc' = "sleep"
    /\ UNCHANGED <<run, pages, p, seen_urls, new_rows, archive, served, last,
                   seeded, loadOk, accepted>>

\* main, lines 246-249
AppendToMaster ==
    /\ pc = "append"
    /\ new_rows # <<>>
    /\ master' = append_to_master(new_rows, master)
    /\ pc' = "sleep"
    /\ UNCHANGED <<run, pages, p, seen_urls, new_rows, archive, served, last,
                   seeded, loadOk, accepted>>

\* main, lines 250-251
NoNewRows ==
    /\ pc = "append"
    /\ new_rows = <<>>
    /\ pc' = "sleep"
    /\ UNCHANGED <<run, pages, p, seen_urls, new_rows, master, archive, served,
                   last, seeded, loadOk, accepted>>

\* main, line 252 and the loop header: time.sleep, then the next page or the
\* summary
Sleep ==
    /\ pc = "sleep"
    /\ IF p < pages
       THEN p' = p + 1 /\ pc' = "scrape"
       ELSE p' = p /\ pc' = "done"
    /\ UNCHANGED <<run, pages, seen_urls, new_rows, master, archive, served,
                   last, seeded, loadOk, accepted>>

\* the process is terminated between two steps of main; what it held in
\* memory is gone (p and accepted stay, to tell what the run had done)
Terminate ==
    /\ pc \in {"start", "scrape", "append", "sleep"}
    /\ pc' = "killed"
    /\ seen_urls' = {}
    /\ new_rows' = <<>>
    /\ seeded' = {}
    /\ last' = NoCall
    /\ UNCHANGED <<run, pages, p, master, archive, served, loadOk, accepted>>

\* the process is terminated inside append_to_master: only the first k rows
\* of the page reached the file
TerminateInAppend ==
    /\ pc = "append"
    /\ new_rows # <<>>
    /\ \E k \in 1..Len(new_rows) :
          master' = append_to_master(SubSeq(new_rows, 1, k - 1), master)
    /\ pc' = "killed"
    /\ seen_urls' = {}
    /\ new_rows' = <<>>
    /\ seeded' = {}
    /\ last' = NoCall
    /\ UNCHANGED <<run, pages, p, archive, served, loadOk, accepted>>

\* main is started again after it finished, against the same pages
RunAgain ==
    /\ pc = "done"
    /\ run < MaxRuns
    /\ run' = run + 1
    /\ pc' = "start"
    /\ p' = 0
    /\ seen_urls' = {}
    /\ new_rows' = <<>>
    /\ seeded' = {}
    /\ accepted' = <<>>
    /\ last' = NoCall
    /\ UNCHANGED <<pages, master, archive, served, loadOk>>

Next ==
    /\ \/ LoadExisting
       \/ ScrapePage
       \/ ScrapePageAgain
       \/ AppendToMaster
       \/ NoNewRows
       \/ Sleep
       \/ Terminate
       \/ TerminateInAppend
       \/ RunAgain
    /\ UNCHANGED <<locVars, cleanVars>>

Spec == Init /\ [][Next]_vars

\* ---------------------------------------------------------------------
\* Properties of the crawler
\* ---------------------------------------------------------------------

\* rows of the master table written by run r, and their URLs as read back
RowsOfRun(r) == {k \in 1..Len(master.rows) : master.rows[k].scrape_time[1] = r}
UrlOfRow(k)  == CsvParse(master.rows[k].product_url)

\* pages whose scrape_page call has returned in the current run
ScrapedPages ==
    IF pc \in {"append", "sleep", "done"} THEN 1..p
    ELSE IF pc = "scrape" THEN 1..(p - 1)
    ELSE {}

\* pages whose rows main has handed to append_to_master in the current run
AppendedPages ==
    IF pc \in {"sleep", "done"} THEN 1..p
    ELSE IF pc \in {"scrape", "append", "killed"} THEN 1..(p - 1)
    ELSE {}

\* the anchors scrape_page loops over for an answer of the site
LoopAnchors(out) ==
    IF out.kind = "response" /\ out.status = 200
    THEN LET primary == find_product_anchor_candidates(Document(out.doc))
         IN IF primary = <<>> THEN fallback_anchors(Document(out.doc)) ELSE primary
    ELSE <<>>

\* <<i, u>>: the i-th anchor looped over for answer `out` has a usable href,
\* which resolves to URL u
OccurrencesIn ==
    [out \in Outcomes \cup {NoOutcome} |->
        LET anchors == LoopAnchors(out)
        IN {<<i, absolute_url(out.url, Strip(GetHref(anchors[i])))>> :
               i \in {j \in 1..Len(anchors) : Strip(GetHref(anchors[j])) # <<>>}}]

\* <<q, i, u>>: such an anchor on a page q scraped in this run
Occurrences ==
    UNION {{<<q, o[1], o[2]>> : o \in OccurrencesIn[served[q]]} : q \in ScrapedPages}

\* position (q1, i1) is not after position (q2, i2) in processing order
NotAfter(q1, i1, q2, i2) == q1 < q2 \/ (q1 = q2 /\ i1 <= i2)

\* C1: within one run no two appended rows share a product_url, no appended
\* row has a product_url of the seeded ledger, and of the anchors that resolve
\* to one URL only the first in processing order is appended.
C1_LedgerUniqueness ==
    LET occ == Occurrences
        url == [k \in 1..Len(master.rows) |-> UrlOfRow(k)]
    IN /\ \A r \in 1..run : \A i, j \in RowsOfRun(r) : i # j => url[i] # url[j]
       /\ \A k \in RowsOfRun(run) : url[k] \notin seeded
       /\ \A k \in RowsOfRun(run) :
             LET st == master.rows[k].scrape_time
             IN /\ pc # "killed" => <<st[2], st[3], url[k]>> \in occ
                /\ \A o \in occ :
                      o[3] = url[k] => NotAfter(st[2], st[3], o[1], o[2])
       /\ \A o \in occ :
             (o[1] \in AppendedPages /\ o[3] \notin seeded)
                 => \E k \in RowsOfRun(run) : url[k] = o[3]

\* C1 witness: a run appended a row although the same URL came again later
\* on the same page and again on a later page.
C1_Witness ==
    /\ pc = "done"
    /\ pages >= 2
    /\ \E k \in RowsOfRun(run) : \E o1, o2 \in Occurrences :
          LET st == master.rows[k].scrape_time
          IN /\ o1[3] = UrlOfRow(k) /\ o2[3] = UrlOfRow(k)
             /\ o1[1] = st[2] /\ o1[2] > st[3]
             /\ o2[1] > st[2]

\* C2: a run that follows a finished run against unchanged pages, and reads
\* the master table, appends no row; its seeded ledger holds every URL the
\* earlier runs accepted.
C2_RerunAppendsNothing ==
    /\ \A k \in 1..Len(master.rows) :
          LET r == master.rows[k].scrape_time[1]
          IN r >= 2 => ~loadOk[r]
    /\ (run >= 2 /\ pc \in {"scrape", "append", "sleep", "done"} /\ loadOk[run])
          => /\ new_rows = <<>>
             /\ \A k \in 1..Len(master.rows) : UrlOfRow(k) \in seeded

\* C2 witness: a second run finished after reading a master table that the
\* first run had filled.
C2_Witness ==
    /\ run = 2
    /\ pc = "done"
    /\ loadOk[2]
    /\ Cardinality(RowsOfRun(1)) >= 2
    /\ \E k \in RowsOfRun(1) : master.rows[k].product_url # UrlOfRow(k)

\* C3: an anchor whose href is missing or blank gives no row and adds nothing
\* to the ledger; every row handed to append_to_master has a product_url.
C3_NoUrlNoRow ==
    /\ \A k \in 1..Len(master.rows) : master.rows[k].product_url # <<>>
    /\ \A k \in 1..Len(new_rows) : new_rows[k].product_url \notin {None, <<>>}
    /\ \A k \in 1..Len(accepted) : accepted[k].product_url \notin {None, <<>>}
    /\ \A i \in 1..Len(last.anchors) :
          Strip(GetHref(last.anchors[i])) = <<>>
              => /\ \A k \in 1..Len(accepted) : accepted[k].scrape_time # <<run, p, i>>
                 /\ \A k \in 1..Len(master.rows) :
                       master.rows[k].scrape_time # <<run, p, i>>
    /\ pc # "killed"
          => seen_urls = seeded \cup {accepted[k].product_url : k \in 1..Len(accepted)}

\* C3 witness: a page with a blank-href anchor among its candidates was
\* scraped and its other rows were appended.
C3_Witness ==
    /\ pc = "sleep"
    /\ new_rows # <<>>
    /\ \E i \in 1..Len(last.anchors) :
          last.anchors[i].href # None /\ Strip(GetHref(last.anchors[i])) = <<>>

\* the step of main in which scrape_page runs
ScrapeStep == pc = "scrape" /\ pc' = "append"

\* what a scrape_page call that took its failure branch must have done, and how
\* main goes on; Failed(out) says which answers count as failures
FailureBranch(Failed(_)) ==
    /\ ScrapeStep =>
          LET out == last'.out
          IN /\ (last'.branch # "parsed") <=> Failed(out)
             /\ last'.branch # "parsed" =>
                   /\ new_rows' = <<>>
                   /\ last'.anchors = <<>>
                   /\ seen_urls' = seen_urls
                   /\ master' = master
                   /\ out.kind = "raise" => archive' = archive
                   /\ out.kind = "response" => archive' = [archive EXCEPT ![p] = out.doc]
    /\ (pc = "append" /\ new_rows = <<>> /\ pc' \notin {"append", "killed"})
          => pc' = "sleep" /\ master' = master
    /\ (pc = "sleep" /\ pc' \notin {"sleep", "killed"})
          => IF p < pages THEN pc' = "scrape" /\ p' = p + 1 ELSE pc' = "done"
    /\ pc = "done" => p = pages

FailedNon2xx(out) == out.kind = "raise" \/ out.status \notin 200..299
FailedNon200(out) == out.kind = "raise" \/ out.status # 200

\* C4 as stated: scrape_page takes its failure branch exactly when the fetch
\* raises or returns a non-2xx status; then it returns no row, leaves ledger
\* and master table alone, archives the body only if there is a response, and
\* main goes on with the remaining pages.
C4_AsStated == [][FailureBranch(FailedNon2xx)]_vars

\* C4 amended: the same, the failure branch being taken exactly when the fetch
\* raises or returns a status other than 200.
C4_FailureBranch == [][FailureBranch(FailedNon200)]_vars

\* C4 witness: page 1 failed with a response, its body was archived, nothing
\* was written, and main is at page 2.
C4_Witness ==
    /\ pc = "scrape"
    /\ p = 2
    /\ last.branch = "non_200"
    /\ archive[1] = last.out.doc
    /\ master = NoFile

\* C5: the rows accepted on a page are in the master table before the next
\* page is fetched, so at any point - also once the process is terminated -
\* the master table holds the accepted rows of every completed page.
C5_DurableBeforeNextPage ==
    \A k \in 1..Len(accepted) :
        accepted[k].scrape_time[2] \in AppendedPages
            => \E j \in RowsOfRun(run) : master.rows[j] = CsvRows(<<accepted[k]>>)[1]

\* C5 witness: the process was terminated on page 2 with rows of page 2 not
\* written, and the master table holds the rows of page 1.
C5_Witness ==
    /\ pc = "killed"
    /\ p = 2
    /\ \E k \in 1..Len(accepted) : accepted[k].scrape_time[2] = 1
    /\ \E k \in 1..Len(accepted) :
          /\ accepted[k].scrape_time[2] = 2
          /\ \A j \in RowsOfRun(run) : master.rows[j] # CsvRows(<<accepted[k]>>)[1]

\* an anchor whose class list contains the card-link marker
HasCardLinkClass(a) ==
    a.hasClass /\ \E i \in 1..Len(a.class) : Contains(Lower(a.class[i]), <<"c", "a", "r", "d", "l", "i", "n", "k", "s">>)

\* C9: when no anchor of the page passes find_product_anchor_candidates, the
\* fallback tier returns exactly the anchors with a card-link class, in
\* document order; when neither tier matches the page gives no row.
C9_FallbackReturnsCardLinks ==
    (last.branch = "parsed" /\ last.tier = "fallback")
        => /\ last.anchors = SelectSeq(Document(last.out.doc), HasCardLinkClass)
           /\ last.anchors = <<>> => new_rows = <<>>

\* ---------------------------------------------------------------------
\* crawler.py: get_ancestor_with_fields
\* ---------------------------------------------------------------------

\* The part of a document tree the climb can see.  The anchor is node 0, its
\* parent node 1, and so on up to node `len`, the root, which has no parent.
\* `marks` places elements in the tree: [lvl |-> k, pos |-> "self"] says node
\* k is itself an element of the given kind; [lvl |-> k, pos |-> "inside"]
\* says such an element lies below node k, and not below node k - 1.
ElementKinds == {"p.price", "div.card", "span.highlight", "span.price"}

Places(len) ==
    {e \in [lvl : 0..len, pos : {"self", "inside"}, kind : ElementKinds] :
        e.pos = "self" => e.lvl >= 1}

\* trees with no such element, with one, and with two of them
Trees ==
    UNION {{[len |-> len, marks |-> m] :
               m \in {{}} \cup
                     {T \in {{e, f} : e, f \in Places(len)} :
                         \A e, f \in T :
                            (e.pos = "self" /\ f.pos = "self" /\ e.lvl = f.lvl) => e = f}} :
           len \in 0..MaxDepth}

\* the default of max_up, and the value scrape_page passes
MaxUp == 6

\* node.select_one(sel): an element of kind sel among the descendants of node
select_one(t, node, sel) ==
    \E e \in t.marks :
        /\ e.kind = sel
        /\ \/ e.pos = "inside" /\ e.lvl <= node
           \/ e.pos = "self" /\ e.lvl < node

\* the selectors get_ancestor_with_fields tries on a node
BlockSelectors ==
    {"p.price", "div.companyname", "div.newLocationUi", "span.highlight",
     "div.supplierInfoDiv", "p.prc", "div.card"}

\* faulty variant of Climb: the loop runs once more than max_up
RECURSIVE Climb_OneMore(_, _, _)
Climb_OneMore(t, j, max_up) ==
    IF j > max_up + 1 \/ j > t.len
    THEN IF t.len >= 1 THEN 1 ELSE 0
    ELSE IF \E sel \in BlockSelectors : select_one(t, j, sel) THEN j
    ELSE Climb_OneMore(t, j + 1, max_up)

\* the loop of get_ancestor_with_fields from its j-th round on, and the
\* fallback after it: node j is a_tag's j-th parent, None beyond the root
RECURSIVE Climb(_, _, _)
Climb(t, j, max_up) ==
    IF j > max_up \/ j > t.len
    THEN IF t.len >= 1 THEN 1 ELSE 0
    ELSE IF \E sel \in BlockSelectors : select_one(t, j, sel) THEN j
    ELSE Climb(t, j + 1, max_up)

\* get_ancestor_with_fields(a_tag, max_up): the level of the node returned
get_ancestor_with_fields(t, max_up) == Climb(t, 1, max_up)

CrawlIdle ==
    /\ run = 1
    /\ pc = "idle"
    /\ pages = 1
    /\ p = 0
    /\ seen_urls = {}
    /\ new_rows = <<>>
    /\ master = NoFile
    /\ archive = [q \in 1..MaxPages |-> "nothing"]
    /\ served = [q \in 1..MaxPages |-> NoOutcome]
    /\ last = NoCall
    /\ seeded = {}
    /\ loadOk = <<>>
    /\ accepted = <<>>

InitLocator ==
    /\ tree \in Trees
    /\ block = -1
    /\ CrawlIdle
    /\ CleanIdle

\* scrape_page, line 205: block = get_ancestor_with_fields(a, max_up=6)
Locate ==
    /\ block = -1
    /\ block' = get_ancestor_with_fields(tree, MaxUp)
    /\ UNCHANGED <<tree, crawlVars, cleanVars>>

NextLocator == Locate

SpecLocator == InitLocator /\ [][NextLocator]_vars

\* the marker elements of the tree that lie strictly below node k
MarkersBelow(k) ==
    {e \in tree.marks :
        /\ e.kind \in {"p.price", "div.companyname", "div.newLocationUi",
                       "span.highlight", "div.supplierInfoDiv", "p.prc", "div.card"}
        /\ IF e.pos = "self" THEN e.lvl + 1 <= k ELSE e.lvl <= k}

\* the ancestors within the depth bound that contain a marker element
MatchingLevels == {k \in 1..6 : k <= tree.len /\ MarkersBelow(k) # {}}

\* C10: get_ancestor_with_fields returns the nearest ancestor within 6 levels
\* that contains a marker element; without one, the anchor's direct parent, or
\* the anchor itself when it has no parent.
C10_NearestMarkedAncestor ==
    block # -1 =>
        /\ block <= 6
        /\ MatchingLevels # {} =>
              /\ block \in MatchingLevels
              /\ \A k \in MatchingLevels : block <= k
        /\ MatchingLevels = {} => block = (IF tree.len >= 1 THEN 1 ELSE 0)

\* C10 witness: the only marked ancestors are at level 6 and above, below it
\* a price-like element that is no marker, and level 6 was returned.
C10_Witness ==
    /\ block = 6
    /\ tree.len > 6
    /\ \E e \in tree.marks : e.kind = "span.price" /\ e.lvl <= 2
    /\ \E e \in tree.marks : e.pos = "self" /\ e.lvl = 5 /\ e.kind = "div.card"

\* ---------------------------------------------------------------------
\* etl.py
\* ---------------------------------------------------------------------

\* A value of the data frame: a str, a number, None or NaN
Str(s)   == [t |-> "str", s |-> s, n |-> 0]
Num(k)   == [t |-> "num", s |-> <<>>, n |-> k]
NoneCell == [t |-> "None", s |-> <<>>, n |-> 0]
NaNCell  == [t |-> "NaN", s |-> <<>>, n |-> 0]
IsAbsent(c) == c.t \in {"None", "NaN"}

Digits == <<"0", "1", "2", "3", "4", "5", "6", "7", "8", "9">>
IsDigit(c) == \E i \in 1..Len(Digits) : Digits[i] = c
DigitValue(c) == IndexIn(c, Digits) - 1

\* the decimal text of a natural number
RECURSIVE IntText(_)
IntText(k) ==
    IF k < 10 THEN <<Digits[k + 1]>> ELSE IntText(k \div 10) \o <<Digits[(k % 10) + 1]>>

\* float(s) / int(s) of a text made of digits only
RECURSIVE DigitsValue(_)
DigitsValue(s) ==
    IF s = <<>> THEN 0
    ELSE DigitsValue(SubSeq(s, 1, Len(s) - 1)) * 10 + DigitValue(s[Len(s)])

\* the texts pandas.read_csv takes for a missing value by default
NaTokens ==
    {<<>>, <<"N", "A">>, <<"N", "a", "N">>, <<"n", "a", "n">>,
     <<"N", "/", "A">>, <<"n", "/", "a">>, <<"N", "o", "n", "e">>,
     <<"N", "U", "L", "L">>, <<"n", "u", "l", "l">>, <<"<", "N", "A", ">">>,
     <<"#", "N", "/", "A">>, <<"#", "N", "A">>, <<"-", "N", "a", "N">>,
     <<"-", "n", "a", "n">>}

\* extract(), pd.read_csv(INPUT_FILE), on one field of the file: a missing
\* value, a number when the field is all digits, else the text
ReadCell(f) ==
    LET v == CsvParse(f)
    IN IF v \in NaTokens THEN NaNCell
       ELSE IF \A i \in 1..Len(v) : IsDigit(v[i]) THEN Num(DigitsValue(v))
       ELSE Str(v)

\* Series.astype(str) on one value; floatColumn: the column holds numbers and
\* a missing value, so its numbers are floats
AsTypeStr(c, floatColumn) ==
    CASE c.t = "str"  -> c.s
      [] c.t = "None" -> <<"N", "o", "n", "e">>
      [] c.t = "NaN"  -> <<"n", "a", "n">>
      [] c.t = "num"  -> IF floatColumn THEN IntText(c.n) \o <<".", "0">> ELSE IntText(c.n)

\* str.title(): a letter after a letter is lower-cased, any other letter is
\* upper-cased
Title(s) ==
    [i \in 1..Len(s) |->
        IF i > 1 /\ IsLetter(s[i - 1]) THEN LowerChar(s[i]) ELSE UpperChar(s[i])]

\* .replace({"Nan": None}) on one value
ReplaceNan(s) == IF s = <<"N", "a", "n">> THEN NoneCell ELSE Str(s)

\* re.findall(r"[\d,]+", text): the maximal runs of digits and commas
InRun(c) == IsDigit(c) \/ c = ","
RECURSIVE FindAllRuns(_, _)
FindAllRuns(text, match) ==
    IF text = <<>> THEN (IF match = <<>> THEN <<>> ELSE <<match>>)
    ELSE IF InRun(text[1]) THEN FindAllRuns(Tail(text), Append(match, text[1]))
    ELSE (IF match = <<>> THEN <<>> ELSE <<match>>) \o FindAllRuns(Tail(text), <<>>)

\* s.replace(",", "")
RECURSIVE RemoveCommas(_)
RemoveCommas(s) ==
    IF s = <<>> THEN <<>>
    ELSE IF s[1] = "," THEN RemoveCommas(Tail(s))
    ELSE <<s[1]>> \o RemoveCommas(Tail(s))

\* faulty variant of parse_price: the commas are not removed before float()
parse_price_CommasKept(text) ==
    IF text = <<>> \/ Lower(text) \in {<<"n", "a", "n">>, <<"n", "o", "n", "e">>}
    THEN NoneCell
    ELSE LET digits == FindAllRuns(text, <<>>)
         IN IF digits = <<>> THEN NoneCell
            ELSE IF \E i \in 1..Len(digits[1]) : digits[1][i] = "," THEN NoneCell
            ELSE Num(DigitsValue(digits[1]))

\* parse_price(text); float("") raises and the except clause returns None
parse_price(text) ==
    IF text = <<>> \/ Lower(text) \in {<<"n", "a", "n">>, <<"n", "o", "n", "e">>}
    THEN NoneCell
    ELSE LET digits == FindAllRuns(text, <<>>)
         IN IF digits = <<>> THEN NoneCell
            ELSE LET number == RemoveCommas(digits[1])
                 IN IF number = <<>> THEN NoneCell ELSE Num(DigitsValue(number))

\* transform(df) on the location and price_text of one row
transform(row, floatColumn) ==
    LET location   == Strip(AsTypeStr(row.location, FALSE))
        price_text == Strip(AsTypeStr(row.price_text, floatColumn))
    IN [location    |-> ReplaceNan(Title(location)),
        price_text  |-> Str(price_text),
        price_value |-> parse_price(price_text)]

\* load(df), df.to_csv: a missing value is written as the empty field
WriteCell(c) ==
    CASE c.t = "str"  -> CsvWrite(c.s)
      [] c.t = "None" -> <<>>
      [] c.t = "NaN"  -> <<>>
      [] c.t = "num"  -> IntText(c.n)

\* Texts of at most n characters over an alphabet
RECURSIVE TextsUpTo(_, _)
TextsUpTo(alphabet, n) ==
    IF n = 0 THEN {<<>>}
    ELSE LET shorter == TextsUpTo(alphabet, n - 1)
         IN shorter \cup {Append(s, c) : s \in shorter, c \in alphabet}

rupees1200 == <<"₹", "1", ",", "2", "0", "0", "/", " ", "p", "i", "e", "c", "e">>
askForPrice == <<"A", "s", "k", " ", "f", "o", "r", " ", "P", "r", "i", "c", "e">>
newDelhi == <<"n", "e", "w", " ", "d", "e", "l", "h", "i">>

LocationTexts ==
    TextsUpTo({"n", "a", "N", " "}, MaxLen)
    \cup {newDelhi, <<"N", "o", "n", "e">>, <<"n", "o", "n", "e">>, <<"N", "/", "a">>, <<" ", "n", "a", "n", " ">>, <<"N", "A", "N">>, <<"n", "a", "n", "d">>}
PriceTexts ==
    TextsUpTo({"1", "0", ",", "x", " "}, MaxLen)
    \cup {rupees1200, askForPrice, <<"1", ",", "0", "x", "1">>, <<"n", "a", "n">>, <<"N", "o", "n", "e">>, <<"N", "O", "N", "E">>, <<"1", ",", "2", "0", "0">>, <<"p", "r", "i", "c", "e", "1", "2">>}

InitClean ==
    /\ stage = "file"
    /\ \E l \in LocationTexts, pt \in PriceTexts :
          /\ l = newDelhi \/ pt = rupees1200
          /\ field = [location |-> CsvWrite(l), price_text |-> CsvWrite(pt)]
    /\ cell = <<>>
    /\ given = <<>>
    /\ first = <<>>
    /\ passes = 0
    /\ CrawlIdle
    /\ LocIdle

\* extract(): the file is read into the frame
Extract ==
    /\ stage \in {"file", "cleanfile"}
    /\ cell' = [location    |-> ReadCell(field.location),
                price_text  |-> ReadCell(field.price_text),
                price_value |-> NaNCell]
    /\ stage' = "frame"
    /\ UNCHANGED <<field, given, first, passes>>

\* df_clean = transform(df): on the frame as read, or on transform's own
\* result
Transform ==
    /\ stage \in {"frame", "clean"}
    /\ passes < 2
    /\ \E floatColumn \in BOOLEAN :
          /\ (cell.price_text.t # "num" => ~floatColumn)
          /\ cell' = transform(cell, floatColumn)
    /\ given' = cell
    /\ first' = IF passes = 0 THEN cell' ELSE first
    /\ passes' = passes + 1
    /\ stage' = "clean"
    /\ UNCHANGED field

\* load(df_clean): the cleaned table is written
Load ==
    /\ stage = "clean"
    /\ passes < 2
    /\ field' = [location   |-> WriteCell(cell.location),
                 price_text |-> WriteCell(cell.price_text)]
    /\ stage' = "cleanfile"
    /\ UNCHANGED <<cell, given, first, passes>>

NextClean ==
    /\ \/ Extract
       \/ Transform
       \/ Load
    /\ UNCHANGED <<crawlVars, locVars>>

SpecClean == InitClean /\ [][NextClean]_vars

\* ---------------------------------------------------------------------
\* Properties of the cleaning pass
\* ---------------------------------------------------------------------

\* the number a text of digits denotes, by place value
RECURSIVE Power10(_)
Power10(k) == IF k = 0 THEN 1 ELSE 10 * Power10(k - 1)
RECURSIVE PlaceValueSum(_, _)
PlaceValueSum(ds, i) ==
    IF i > Len(ds) THEN 0
    ELSE DigitValue(ds[i]) * Power10(Len(ds) - i) + PlaceValueSum(ds, i + 1)

IsDigitOrComma(c) == c \in {"0", "1", "2", "3", "4", "5", "6", "7", "8", "9", ","}
IsDecimalDigit(c) == c \in {"0", "1", "2", "3", "4", "5", "6", "7", "8", "9"}

\* what C7 says the numeric price of a price text is
ExpectedPrice(text) ==
    IF text = <<>> \/ Lower(text) \in {<<"n", "a", "n">>, <<"n", "o", "n", "e">>}
    THEN NoneCell
    ELSE IF \A i \in 1..Len(text) : ~IsDigitOrComma(text[i]) THEN NoneCell
    ELSE
      LET a  == CHOOSE i \in 1..Len(text) :
                    IsDigitOrComma(text[i]) /\ \A j \in 1..(i - 1) : ~IsDigitOrComma(text[j])
          b  == CHOOSE j \in a..Len(text) :
                    /\ \A k \in a..j : IsDigitOrComma(text[k])
                    /\ j = Len(text) \/ ~IsDigitOrComma(text[j + 1])
          ds == SelectSeq(SubSeq(text, a, b), IsDecimalDigit)
      IN IF ds = <<>> THEN NoneCell ELSE Num(PlaceValueSum(ds, 1))

\* two values of the frame are the same value, any two missing values alike
SameValue(x, y) == (IsAbsent(x) /\ IsAbsent(y)) \/ x = y

\* C6: transform applied to its own result, in memory or after load and
\* extract, gives the same price_value and the same location as the first
\* application gave.
C6_TransformIdempotent ==
    (stage = "clean" /\ passes = 2)
        => /\ SameValue(cell.location, first.location)
           /\ SameValue(cell.price_value, first.price_value)

\* C7: the numeric price is absent for an absent text, a nan/none sentinel or
\* a text without digit or comma; else it is the number of the first run of
\* digits and commas, commas removed, absent if none is left; price_text is
\* left as it was.
C7_ParsePrice ==
    stage = "clean" =>
        /\ cell.price_text.t = "str"
        /\ cell.price_value = ExpectedPrice(cell.price_text.s)
        /\ IsAbsent(given.price_text) => IsAbsent(cell.price_value)
        /\ given.price_text.t = "str" => cell.price_text.s = Strip(given.price_text.s)
        /\ given.price_text = Str(rupees1200)
              => cell.price_value = Num(1200) /\ cell.price_text = Str(rupees1200)
        /\ given.price_text = Str(askForPrice)
              => IsAbsent(cell.price_value) /\ cell.price_text = Str(askForPrice)

\* C7 witness: a price whose first run of digits and commas has a comma and is
\* followed by another run was cleaned.
C7_Witness ==
    /\ stage = "clean"
    /\ passes = 1
    /\ given.price_text = Str(<<"1", ",", "0", "x", "1">>)
    /\ cell.price_value = Num(10)

\* C8: the cleaned location is the title-cased, trimmed input location or the
\* absence marker; it is the absence marker whenever the trimmed input is
\* empty or is "nan" in any letter case, and never "", "Nan" or "None".
C8_LocationNormalized ==
    stage = "clean" =>
        /\ \/ IsAbsent(cell.location)
           \/ given.location.t = "str" /\ cell.location = Str(Title(Strip(given.location.s)))
        /\ (given.location.t = "str"
              /\ (Strip(given.location.s) = <<>> \/ Lower(Strip(given.location.s)) = <<"n", "a", "n">>))
              => IsAbsent(cell.location)
        /\ cell.location \notin {Str(<<>>), Str(<<"N", "a", "n">>), Str(<<"N", "o", "n", "e">>)}

====
